---- MODULE Spec2Model ----
(***************************************************************************)
(* Model of annul: the content sanitizer (src/src/strings.rs) and the      *)
(* recursive frame encoder (src/src/main.rs, fn output).                   *)
(*                                                                         *)
(* Three specifications share the variables below:                        *)
(*   SpecStrings  the whole-buffer sanitizer  strings(data)                *)
(*   SpecChunks   the streaming sanitizer  StringBuf::accept / finish      *)
(*   SpecWalk     the entry walker and frame encoder  output(...)          *)
(***************************************************************************)
EXTENDS Integers, Sequences, FiniteSets, TLC

VARIABLES
    pc,         \* position of the running function
    data,       \* the input byte sequence of the sanitizer
    chars,      \* strings: the Vec<Char> returned by find_chars
    ci,         \* strings: index of the next Char of the for loop
    rest,       \* StringBuf: input bytes not yet handed to accept
    la,         \* StringBuf: look-ahead bytes kept between accept calls
    buf,        \* the run buffer
    binaries,   \* the count of tolerated binary bytes at the end of buf
    out,        \* the bytes written to the output
    straddled,  \* StringBuf history: some accept call returned with look-ahead
                \* bytes kept, i.e. a chunk boundary fell inside a multi-byte unit
    run,        \* StringBuf: 1 = the content fed as one chunk, 2 = fed in chunks
    ref,        \* StringBuf: the output of run 1
    flushes,    \* StringBuf history: for every size-bound flush of the run, the
                \* output length after it, the bytes left in the run buffer
                \* and how many of them are tolerated binary bytes
    wpc,        \* walker: "call", "walking", "done" or "failed"
    root,       \* walker: the entries of the top level archive, as unpacked
    stack,      \* walker: the active calls of output: sorted entries, loop
                \* index and ancestor paths of each
    stream,     \* walker: the bytes written to out
    frames,     \* walker history: the entry, offset and copied length of
                \* every frame started
    fault,      \* walker: the I/O fault that ended the walk, or "none"
    wrun,       \* walker: 1 = first walk, 2 = walk over the reordered listing
    wref,       \* walker: the listing and the stream of the first walk
    procs,      \* pipeline: the state of every run of main
    fs,         \* pipeline: the destination directory, by file name
    manifest,   \* pipeline: the constituent files the package manifest names
    urlfile     \* pipeline: what the file at the source URL is

svars == <<pc, data, chars, ci, rest, la, buf, binaries, out, straddled, run, ref, flushes>>
wvars == <<wpc, root, stack, stream, frames, fault, wrun, wref>>
mvars == <<procs, fs, manifest, urlfile>>
vars == <<svars, wvars, mvars>>

-----------------------------------------------------------------------------
(* Bounds *)

\* longest input of the exhaustively enumerated short inputs
MaxLen == 4
\* longest tail appended to the structured (collapse / long) inputs
MaxTail == 2

-----------------------------------------------------------------------------
(* Sequence helpers *)

Take(s, n) == SubSeq(s, 1, n)
Drop(s, n) == SubSeq(s, n + 1, Len(s))

Rep(b, n) == [i \in 1..n |-> b]

SeqsUpTo(S, n) == UNION {[1..k -> S] : k \in 0..n}

-----------------------------------------------------------------------------
(* strings.rs: Char, ShortArray *)

Binary(b) == [kind |-> "Binary", bytes |-> <<b>>, missing |-> 0]
Printable(arr) == [kind |-> "Printable", bytes |-> arr, missing |-> 0]
Short(n) == [kind |-> "Short", bytes |-> <<>>, missing |-> n]

\* impl Char { fn len }
CharLen(c) ==
    CASE c.kind = "Binary" -> 1
      [] c.kind = "Printable" -> Len(c.bytes)
      [] c.kind = "Short" -> c.missing

\* byte & mask, for a mask that keeps the high bits above `low`
HighBits(byte, low) == byte - (byte % low)

follower(byte) == HighBits(byte, 64) = 128

get_char_m3(bytes) ==
    IF bytes = <<>> THEN Short(1)
    ELSE LET byte == bytes[1] IN
         IF byte < 32 /\ 9 # byte /\ 10 # byte /\ 13 # byte THEN Binary(byte)
         ELSE IF byte < 127 THEN Printable(<<byte>>)
         ELSE IF HighBits(byte, 32) = 192 /\ Len(bytes) >= 2 /\ follower(bytes[2])
              THEN Printable(<<bytes[1], bytes[2]>>)
         ELSE IF HighBits(byte, 16) = 224 /\ Len(bytes) >= 3
                 /\ follower(bytes[2])
              THEN Printable(<<bytes[1], bytes[2], bytes[3]>>)
         ELSE IF HighBits(byte, 8) = 240 /\ Len(bytes) >= 4
                 /\ follower(bytes[2]) /\ follower(bytes[3]) /\ follower(bytes[4])
              THEN Printable(<<bytes[1], bytes[2], bytes[3], bytes[4]>>)
         ELSE Binary(byte)

get_char_tab(bytes) ==
    IF bytes = <<>> THEN Short(1)
    ELSE LET byte == bytes[1] IN
         IF byte < 32 /\ 10 # byte /\ 13 # byte THEN Binary(byte)
         ELSE IF byte < 127 THEN Printable(<<byte>>)
         ELSE IF HighBits(byte, 32) = 192 /\ Len(bytes) >= 2 /\ follower(bytes[2])
              THEN Printable(<<bytes[1], bytes[2]>>)
         ELSE IF HighBits(byte, 16) = 224 /\ Len(bytes) >= 3
                 /\ follower(bytes[2]) /\ follower(bytes[3])
              THEN Printable(<<bytes[1], bytes[2], bytes[3]>>)
         ELSE IF HighBits(byte, 8) = 240 /\ Len(bytes) >= 4
                 /\ follower(bytes[2]) /\ follower(bytes[3]) /\ follower(bytes[4])
              THEN Printable(<<bytes[1], bytes[2], bytes[3], bytes[4]>>)
         ELSE Binary(byte)

get_char_peek(bytes) ==
    IF bytes = <<>> THEN Short(1)
    ELSE LET byte == bytes[1] IN
         IF byte < 32 /\ 9 # byte /\ 10 # byte /\ 13 # byte THEN Binary(byte)
         ELSE IF byte < 127 THEN Printable(<<byte>>)
         ELSE IF HighBits(byte, 32) = 192 /\ Len(bytes) >= 3 /\ follower(bytes[2])
              THEN Printable(<<bytes[1], bytes[2]>>)
         ELSE IF HighBits(byte, 16) = 224 /\ Len(bytes) >= 3
                 /\ follower(bytes[2]) /\ follower(bytes[3])
              THEN Printable(<<bytes[1], bytes[2], bytes[3]>>)
         ELSE IF HighBits(byte, 8) = 240 /\ Len(bytes) >= 4
                 /\ follower(bytes[2]) /\ follower(bytes[3]) /\ follower(bytes[4])
              THEN Printable(<<bytes[1], bytes[2], bytes[3], bytes[4]>>)
         ELSE Binary(byte)

\* fn get_char(bytes: &[u8]) -> Char
get_char(bytes) ==
    IF bytes = <<>> THEN Short(1)
    ELSE LET byte == bytes[1] IN
         IF byte < 32 /\ 9 # byte /\ 10 # byte /\ 13 # byte THEN Binary(byte)
         ELSE IF byte < 127 THEN Printable(<<byte>>)
         ELSE IF HighBits(byte, 32) = 192 /\ Len(bytes) >= 2 /\ follower(bytes[2])
              THEN Printable(<<bytes[1], bytes[2]>>)
         ELSE IF HighBits(byte, 16) = 224 /\ Len(bytes) >= 3
                 /\ follower(bytes[2]) /\ follower(bytes[3])
              THEN Printable(<<bytes[1], bytes[2], bytes[3]>>)
         ELSE IF HighBits(byte, 8) = 240 /\ Len(bytes) >= 4
                 /\ follower(bytes[2]) /\ follower(bytes[3]) /\ follower(bytes[4])
              THEN Printable(<<bytes[1], bytes[2], bytes[3], bytes[4]>>)
         ELSE Binary(byte)

\* fn classify(byte: u8) -> Classification
classify(byte) ==
    IF byte < 32 /\ 9 # byte /\ 10 # byte /\ 13 # byte THEN "Binary"
    ELSE IF byte < 127 THEN "Ascii"
    ELSE IF HighBits(byte, 64) = 128 THEN "UtfFollower"
    ELSE IF HighBits(byte, 32) = 192 THEN "Utf2"
    ELSE IF HighBits(byte, 16) = 224 THEN "Utf3"
    ELSE IF HighBits(byte, 8) = 240 THEN "Utf4"
    ELSE "Binary"

\* fn find_chars(data: &[u8]) -> Vec<Char>; panic = the assert_eq!(0, missing)
\* of the Char::Short arm failed
RECURSIVE find_chars_from(_, _)
find_chars_from(ptr, acc) ==
    IF ptr = <<>> THEN [chars |-> acc, panic |-> FALSE]
    ELSE LET c == get_char(ptr) IN
         IF c.kind = "Short"
         THEN [chars |-> acc, panic |-> (c.missing # 0)]
         ELSE find_chars_from(Drop(ptr, CharLen(c)), Append(acc, c))

find_chars(d) == find_chars_from(d, <<>>)

\* the body of the for loop of fn strings, one Char at a time, on the
\* locals (buf, binaries, out); panic = an assert! or unimplemented! fired
strings_step_ge(c, st) ==
    CASE c.kind = "Binary" /\ st.binaries < 2 ->
            [st EXCEPT !.binaries = st.binaries + 1,
                       !.buf = Append(st.buf, c.bytes[1])]
      [] c.kind = "Binary" /\ ~(st.binaries < 2) ->
            IF st.binaries > Len(st.buf)
            THEN [st EXCEPT !.panic = TRUE]
            ELSE LET trimmed == Take(st.buf, Len(st.buf) - st.binaries) IN
                 [st EXCEPT !.out = IF Len(trimmed) >= 3
                                    THEN st.out \o trimmed \o <<0>>
                                    ELSE st.out,
                            !.binaries = 0,
                            !.buf = <<>>]
      [] c.kind = "Printable" ->
            [st EXCEPT !.buf = (IF st.binaries = Len(st.buf) THEN <<>> ELSE st.buf)
                                  \o c.bytes,
                       !.binaries = 0]
      [] c.kind = "Short" -> [st EXCEPT !.panic = TRUE]

strings_step_nonul(c, st) ==
    CASE c.kind = "Binary" /\ st.binaries < 2 ->
            [st EXCEPT !.binaries = st.binaries + 1,
                       !.buf = Append(st.buf, c.bytes[1])]
      [] c.kind = "Binary" /\ ~(st.binaries < 2) ->
            IF st.binaries > Len(st.buf)
            THEN [st EXCEPT !.panic = TRUE]
            ELSE LET trimmed == Take(st.buf, Len(st.buf) - st.binaries) IN
                 [st EXCEPT !.out = IF Len(trimmed) > 3
                                    THEN st.out \o trimmed
                                    ELSE st.out,
                            !.binaries = 0,
                            !.buf = <<>>]
      [] c.kind = "Printable" ->
            [st EXCEPT !.buf = (IF st.binaries = Len(st.buf) THEN <<>> ELSE st.buf)
                                  \o c.bytes,
                       !.binaries = 0]
      [] c.kind = "Short" -> [st EXCEPT !.panic = TRUE]

strings_step_gt4(c, st) ==
    CASE c.kind = "Binary" /\ st.binaries < 2 ->
            [st EXCEPT !.binaries = st.binaries + 1,
                       !.buf = Append(st.buf, c.bytes[1])]
      [] c.kind = "Binary" /\ ~(st.binaries < 2) ->
            IF st.binaries > Len(st.buf)
            THEN [st EXCEPT !.panic = TRUE]
            ELSE LET trimmed == Take(st.buf, Len(st.buf) - st.binaries) IN
                 [st EXCEPT !.out = IF Len(trimmed) > 4
                                    THEN st.out \o trimmed \o <<0>>
                                    ELSE st.out,
                            !.binaries = 0,
                            !.buf = <<>>]
      [] c.kind = "Printable" ->
            [st EXCEPT !.buf = (IF st.binaries = Len(st.buf) THEN <<>> ELSE st.buf)
                                  \o c.bytes,
                       !.binaries = 0]
      [] c.kind = "Short" -> [st EXCEPT !.panic = TRUE]

strings_step_keepcount(c, st) ==
    CASE c.kind = "Binary" /\ st.binaries < 2 ->
            [st EXCEPT !.binaries = st.binaries + 1,
                       !.buf = Append(st.buf, c.bytes[1])]
      [] c.kind = "Binary" /\ ~(st.binaries < 2) ->
            IF st.binaries > Len(st.buf)
            THEN [st EXCEPT !.panic = TRUE]
            ELSE LET trimmed == Take(st.buf, Len(st.buf) - st.binaries) IN
                 [st EXCEPT !.out = IF Len(trimmed) > 3
                                    THEN st.out \o trimmed \o <<0>>
                                    ELSE st.out,
                            !.binaries = 0,
                            !.buf = <<>>]
      [] c.kind = "Printable" ->
            [st EXCEPT !.buf = (IF st.binaries = Len(st.buf) THEN <<>> ELSE st.buf)
                                  \o c.bytes]
      [] c.kind = "Short" -> [st EXCEPT !.panic = TRUE]

strings_step_notrim(c, st) ==
    CASE c.kind = "Binary" /\ st.binaries < 2 ->
            [st EXCEPT !.binaries = st.binaries + 1,
                       !.buf = Append(st.buf, c.bytes[1])]
      [] c.kind = "Binary" /\ ~(st.binaries < 2) ->
            IF st.binaries > Len(st.buf)
            THEN [st EXCEPT !.panic = TRUE]
            ELSE LET trimmed == st.buf IN
                 [st EXCEPT !.out = IF Len(trimmed) > 3
                                    THEN st.out \o trimmed \o <<0>>
                                    ELSE st.out,
                            !.binaries = 0,
                            !.buf = <<>>]
      [] c.kind = "Printable" ->
            [st EXCEPT !.buf = (IF st.binaries = Len(st.buf) THEN <<>> ELSE st.buf)
                                  \o c.bytes,
                       !.binaries = 0]
      [] c.kind = "Short" -> [st EXCEPT !.panic = TRUE]

strings_step(c, st) ==
    CASE c.kind = "Binary" /\ st.binaries < 2 ->
            [st EXCEPT !.binaries = st.binaries + 1,
                       !.buf = Append(st.buf, c.bytes[1])]
      [] c.kind = "Binary" /\ ~(st.binaries < 2) ->
            IF st.binaries > Len(st.buf)
            THEN [st EXCEPT !.panic = TRUE]
            ELSE LET trimmed == Take(st.buf, Len(st.buf) - st.binaries) IN
                 [st EXCEPT !.out = IF Len(trimmed) > 3
                                    THEN st.out \o trimmed \o <<0>>
                                    ELSE st.out,
                            !.binaries = 0,
                            !.buf = <<>>]
      [] c.kind = "Printable" ->
            [st EXCEPT !.buf = (IF st.binaries = Len(st.buf) THEN <<>> ELSE st.buf)
                                  \o c.bytes,
                       !.binaries = 0]
      [] c.kind = "Short" -> [st EXCEPT !.panic = TRUE]

\* the locals of fn strings at loop entry: out, buf, binaries
strings_locals == [out |-> <<>>, buf |-> <<>>, binaries |-> 0, panic |-> FALSE]

-----------------------------------------------------------------------------
(* Inputs *)

\* one byte of every class get_char tells apart:
\* 1 control, 9 tab, 65 'A', 128 continuation, 195 2-byte lead,
\* 226 3-byte lead, 240 4-byte lead
Alphabet == {1, 9, 65, 128, 195, 226, 240}

ShortInputs == SeqsUpTo(Alphabet, MaxLen)

\* text run, binary run, text run, and a tail
CollapseInputs ==
    { a \o n \o b \o t :
        a \in {<<104, 101, 108, 108, 111>>, <<65, 195, 128, 65>>, <<226, 128, 128, 9>>,
               <<65, 65, 65>>, <<240, 128, 128, 128>>},
        n \in {<<1, 2, 3>>, <<0, 1, 2, 3>>, <<1, 128, 1, 2, 3>>, <<195, 1, 128, 226, 1, 1>>,
               <<1, 2>>, <<1, 1, 1, 1, 1, 1, 1>>},
        b \in {<<119, 111, 114, 108, 100>>, <<65>>, <<195, 128>>},
        t \in SeqsUpTo({1, 65}, MaxTail) }

Inputs == ShortInputs \cup CollapseInputs

-----------------------------------------------------------------------------
(* SpecStrings: fn strings(data) *)

InitStrings ==
    /\ pc = "call"
    /\ data \in Inputs
    /\ chars = <<>>
    /\ ci = 1
    /\ rest = <<>>
    /\ la = <<>>
    /\ buf = <<>>
    /\ binaries = 0
    /\ out = <<>>
    /\ straddled = FALSE
    /\ run = 1
    /\ ref = <<>>
    /\ flushes = <<>>
    /\ wpc = "idle"
    /\ root = <<>>
    /\ stack = <<>>
    /\ stream = <<>>
    /\ frames = <<>>
    /\ fault = "none"
    /\ wrun = 1
    /\ wref = <<>>
    /\ procs = <<>>
    /\ fs = <<>>
    /\ manifest = <<>>
    /\ urlfile = "none"

\* let mut out, buf, binaries; find_chars(data)
FindChars ==
    /\ pc = "call"
    /\ LET r == find_chars(data) IN
        /\ chars' = r.chars
        /\ pc' = IF r.panic THEN "panic" ELSE "loop"
    /\ ci' = 1
    /\ buf' = strings_locals.buf
    /\ binaries' = strings_locals.binaries
    /\ out' = strings_locals.out
    /\ UNCHANGED <<data, rest, la, straddled, run, ref, flushes, wvars, mvars>>

\* one iteration of  for c in find_chars(data)
StringsLoop ==
    /\ pc = "loop"
    /\ ci <= Len(chars)
    /\ LET st == strings_step(chars[ci],
                     [out |-> out, buf |-> buf, binaries |-> binaries, panic |-> FALSE]) IN
        /\ buf' = st.buf
        /\ binaries' = st.binaries
        /\ out' = st.out
        /\ pc' = IF st.panic THEN "panic" ELSE "loop"
    /\ ci' = ci + 1
    /\ UNCHANGED <<data, chars, rest, la, straddled, run, ref, flushes, wvars, mvars>>

\* out.extend_from_slice(&buf); out
StringsReturn ==
    /\ pc = "loop"
    /\ ci > Len(chars)
    /\ out' = out \o buf
    /\ pc' = "done"
    /\ UNCHANGED <<data, chars, ci, rest, la, buf, binaries, straddled, run, ref, flushes, wvars, mvars>>

NextStrings == FindChars \/ StringsLoop \/ StringsReturn

SpecStrings == InitStrings /\ [][NextStrings]_vars

-----------------------------------------------------------------------------
(* StringBuf: the streaming sanitizer used by fn output.  Its source is not
   part of src/src/strings.rs; it is modelled from the specification
   (section 4.2) on top of get_char and the loop body of fn strings. *)

\* run buffer size above which it is force-flushed, and the bytes written then
FlushAt == 255
FlushLen == 250

\* the bytes a unit starting with this byte needs before it can be decided
wanted(byte) ==
    CASE classify(byte) = "Utf2" -> 2
      [] classify(byte) = "Utf3" -> 3
      [] classify(byte) = "Utf4" -> 4
      [] OTHER -> 1

\* size-bound flush: the first FlushLen bytes are written, no NUL
force_flush(st) ==
    IF Len(st.buf) > FlushAt
    THEN [st EXCEPT !.out = st.out \o Take(st.buf, FlushLen),
                    !.buf = Drop(st.buf, FlushLen)]
    ELSE st

StringBuf_new == [out |-> <<>>, buf |-> <<>>, binaries |-> 0, panic |-> FALSE, la |-> <<>>]

\* the unit at the head of the look-ahead can be decided
accept_ready(st) == st.la # <<>> /\ Len(st.la) >= wanted(st.la[1])

\* one iteration of the loop of accept: classify the unit at the head of
\* the look-ahead, account for it, bound the run buffer
accept_step(st) ==
    LET c == get_char(st.la) IN
    force_flush(strings_step(c, [st EXCEPT !.la = Drop(st.la, CharLen(c))]))

RECURSIVE accept_loop(_)
accept_loop(st) ==
    IF accept_ready(st) /\ ~st.panic THEN accept_loop(accept_step(st)) ELSE st

\* StringBuf::accept(&mut self, chunk)
StringBuf_accept(st, chunk) == accept_loop([st EXCEPT !.la = st.la \o chunk])

\* StringBuf::finish(self): the run buffer as it is, then the undecided bytes
StringBuf_finish(st) == [st EXCEPT !.out = st.out \o st.buf \o st.la,
                                   !.buf = <<>>, !.la = <<>>]

\* largest chunk size tried at every position (besides the special sizes)
MaxChunk == 3

LongTails == {<<>>, <<9, 10>>, <<1, 1>>, <<1, 1, 1, 65>>, <<226, 128, 128>>, <<240, 128>>}

\* long text runs, and a text run whose 3-byte unit lies across the first
\* FlushLen bytes
LongInputs ==
    { Rep(65, n) \o t : n \in {FlushAt - 1, FlushAt, FlushAt + 1}, t \in LongTails }
    \cup { Rep(65, FlushLen - 1) \o <<226, 128, 128>> \o Rep(65, 4) \o t : t \in LongTails }

ChunkInputs == ShortInputs \cup LongInputs

StringBuf_state == [out |-> out, buf |-> buf, binaries |-> binaries, panic |-> FALSE, la |-> la]

InitChunks ==
    /\ pc = "accepting"
    /\ data \in ChunkInputs
    /\ rest = data
    /\ chars = <<>>
    /\ ci = 1
    /\ la = StringBuf_new.la
    /\ buf = StringBuf_new.buf
    /\ binaries = StringBuf_new.binaries
    /\ out = StringBuf_new.out
    /\ straddled = FALSE
    /\ run = 1
    /\ ref = <<>>
    /\ flushes = <<>>
    /\ wpc = "idle"
    /\ root = <<>>
    /\ stack = <<>>
    /\ stream = <<>>
    /\ frames = <<>>
    /\ fault = "none"
    /\ wrun = 1
    /\ wref = <<>>
    /\ procs = <<>>
    /\ fs = <<>>
    /\ manifest = <<>>
    /\ urlfile = "none"

\* file.read(&mut buf) returned n bytes; stringer.accept(&buf[..n]) is
\* entered.  The first run feeds the whole input as one chunk.
Accept ==
    /\ pc = "accepting"
    /\ \E n \in 1..Len(rest) :
        /\ n = Len(rest) \/ (run = 2 /\ (n <= MaxChunk \/ n = FlushLen))
        /\ la' = la \o Take(rest, n)
        /\ rest' = Drop(rest, n)
    /\ pc' = "in_accept"
    /\ UNCHANGED <<data, chars, ci, buf, binaries, out, straddled, run, ref, flushes, wvars, mvars>>

\* one iteration of the loop of accept
AcceptUnit ==
    /\ pc = "in_accept"
    /\ accept_ready(StringBuf_state)
    /\ LET st == accept_step(StringBuf_state) IN
        /\ out' = st.out
        /\ buf' = st.buf
        /\ binaries' = st.binaries
        /\ la' = st.la
        /\ pc' = IF st.panic THEN "panic" ELSE "in_accept"
        /\ flushes' = IF Len(st.out) = Len(out) + FlushLen /\ st.buf # <<>>
                       THEN Append(flushes, [at |-> Len(st.out), left |-> st.buf,
                                             tolerated |-> st.binaries])
                       ELSE flushes
    /\ UNCHANGED <<data, chars, ci, rest, straddled, run, ref, wvars, mvars>>

\* accept returns: the chunk is used up, or its last bytes are an undecided
\* unit kept in the look-ahead
AcceptReturn ==
    /\ pc = "in_accept"
    /\ ~accept_ready(StringBuf_state)
    /\ pc' = "accepting"
    /\ straddled' = (straddled \/ (la # <<>> /\ rest # <<>>))
    /\ UNCHANGED <<data, chars, ci, rest, la, buf, binaries, out, run, ref, flushes, wvars, mvars>>

\* file.read returned 0; stringer.finish()
Finish ==
    /\ pc = "accepting"
    /\ rest = <<>>
    /\ LET st == StringBuf_finish(StringBuf_state) IN
        /\ out' = st.out
        /\ buf' = st.buf
        /\ la' = st.la
    /\ pc' = "finished"
    /\ UNCHANGED <<data, chars, ci, rest, binaries, straddled, run, ref, flushes, wvars, mvars>>

\* the same content is sanitized again with a new StringBuf, now in chunks
Again ==
    /\ pc = "finished"
    /\ run = 1
    /\ ref' = out
    /\ run' = 2
    /\ rest' = data
    /\ la' = StringBuf_new.la
    /\ buf' = StringBuf_new.buf
    /\ binaries' = StringBuf_new.binaries
    /\ out' = StringBuf_new.out
    /\ pc' = "accepting"
    /\ flushes' = <<>>
    /\ UNCHANGED <<data, chars, ci, straddled, wvars, mvars>>

NextChunks == Accept \/ AcceptUnit \/ AcceptReturn \/ Finish \/ Again

SpecChunks == InitChunks /\ [][NextChunks]_vars

-----------------------------------------------------------------------------
(* Byte classes as the specification states them (section 4.2) *)

IsTextByte(b) == b \in (32..126) \cup {9, 10, 13}
IsContinuation(b) == b \in 128..191
LeadLen(b) ==
    IF b \in 192..223 THEN 2
    ELSE IF b \in 224..239 THEN 3
    ELSE IF b \in 240..247 THEN 4
    ELSE 0

\* s starts with a lead byte and all its continuation bytes
ValidMulti(s) ==
    /\ s # <<>>
    /\ LeadLen(s[1]) > 0
    /\ Len(s) >= LeadLen(s[1])
    /\ \A j \in 2..LeadLen(s[1]) : IsContinuation(s[j])

RECURSIVE IsPrintableRun(_)
IsPrintableRun(s) ==
    \/ s = <<>>
    \/ IsTextByte(s[1]) /\ IsPrintableRun(Tail(s))
    \/ ValidMulti(s) /\ IsPrintableRun(Drop(s, LeadLen(s[1])))

\* every byte of n is a binary byte where it stands in n \o b
RECURSIVE IsBinaryRun(_, _)
IsBinaryRun(n, b) ==
    \/ n = <<>>
    \/ /\ ~IsTextByte(n[1])
       /\ ~ValidMulti(n \o b)
       /\ IsBinaryRun(Tail(n), b)

IsPureText(d) == \A i \in 1..Len(d) : IsTextByte(d[i])

-----------------------------------------------------------------------------
(* Claims on the sanitizer *)

\* C1: however the input is cut into non-empty chunks fed to accept and
\* followed by finish, the output equals the output of feeding the whole
\* input as one chunk.
ChunkIndependence ==
    (pc = "finished" /\ run = 2) => out = ref

\* a 3-byte unit was fed 1+2 or 2+1 and came out whole
ChunkIndependenceWitness ==
    /\ pc = "finished"
    /\ run = 2
    /\ straddled
    /\ data = <<226, 128, 128>>
    /\ out = <<226, 128, 128>>

\* C2: an input A \o N \o B with A, B non-empty printable runs, A longer
\* than 3 bytes and N a run of 3 or more binary bytes is sanitized by
\* strings to A \o <<0>> \o B.
NoiseCollapse ==
    pc = "done" =>
        \A i \in 4..Len(data) : \A j \in (i + 3)..(Len(data) - 1) :
            LET A == SubSeq(data, 1, i)
                N == SubSeq(data, i + 1, j)
                B == SubSeq(data, j + 1, Len(data))
            IN  (IsPrintableRun(A) /\ IsPrintableRun(B) /\ IsBinaryRun(N, B))
                    => out = A \o <<0>> \o B

HelloWorld == <<104, 101, 108, 108, 111, 1, 2, 3, 119, 111, 114, 108, 100>>

NoiseCollapseWitness ==
    /\ pc = "done"
    /\ data = HelloWorld
    /\ out = <<104, 101, 108, 108, 111, 0, 119, 111, 114, 108, 100>>

\* C3: an input of printable ASCII, tab, LF and CR bytes only, of any length
\* and under any chunking, comes out of the sanitizer unchanged.
PureTextRoundTrip ==
    (pc = "finished" /\ IsPureText(data)) => out = data

PureTextRoundTripWitness ==
    /\ pc = "finished"
    /\ run = 2
    /\ IsPureText(data)
    /\ Len(data) > FlushAt
    /\ out = data

\* the offset of the k-th Char of find_chars in the input
RECURSIVE CharStart(_, _)
CharStart(cs, k) == IF k <= 1 THEN 0 ELSE CharStart(cs, k - 1) + CharLen(cs[k - 1])

RECURSIVE CharsBytes(_)
CharsBytes(cs) == IF cs = <<>> THEN <<>> ELSE cs[1].bytes \o CharsBytes(Tail(cs))

\* the lead byte at position i of d is followed, within its unit, by a byte
\* that is not a continuation byte
BadContinuation(d, i) ==
    /\ LeadLen(d[i]) > 0
    /\ \E j \in 1..(LeadLen(d[i]) - 1) : i + j <= Len(d) /\ ~IsContinuation(d[i + j])

\* C4: a lead byte followed by a non-continuation byte is one binary unit
\* of length 1 and the next unit starts at the very next byte; the units of
\* find_chars tile the input (their bytes, in order, are the input).
InvalidContinuation ==
    pc \in {"loop", "done"} =>
        /\ CharsBytes(chars) = data
        /\ CharStart(chars, Len(chars) + 1) = Len(data)
        /\ \A i \in 1..Len(data) :
              BadContinuation(data, i) =>
                  \E k \in 1..Len(chars) :
                      /\ CharStart(chars, k) = i - 1
                      /\ chars[k] = Binary(data[i])
                      /\ CharStart(chars, k + 1) = i

InvalidContinuationWitness ==
    /\ pc = "done"
    /\ data = <<226, 128, 65>>
    /\ Len(chars) = 3
    /\ chars[1] = Binary(226)

\* C5: when a 3rd consecutive binary byte arrives and the run buffer without
\* its tolerated binary bytes holds 3 bytes or fewer, nothing is written and
\* the run buffer and the counter are reset.
ShortRunDiscarded ==
    [][ ( /\ pc = "loop"
          /\ ci <= Len(chars)
          /\ chars[ci].kind = "Binary"
          /\ binaries = 2
          /\ Len(buf) - binaries <= 3 )
        => (out' = out /\ buf' = <<>> /\ binaries' = 0 /\ pc' = "loop") ]_vars

ShortRunDiscardedWitness ==
    /\ pc = "done"
    /\ data = <<65, 65, 65, 1, 2, 3, 65>>
    /\ out = <<65>>

-----------------------------------------------------------------------------
(* main.rs: the entry tree (splayers::Entry, splayers::Status) *)

NoTemp == [present |-> FALSE, content |-> <<>>]
Temp(c) == [present |-> TRUE, content |-> c]

StatusTags == {"Unnecessary", "Unrecognised", "TooNested", "Unsupported", "Error", "Success"}

\* an entry whose children were not produced
Leaf(path, temp, tag) ==
    [path |-> path, temp |-> temp, children |-> [tag |-> tag, entries |-> <<>>]]

\* an entry with Status::Success(entries)
Success(path, temp, entries) ==
    [path |-> path, temp |-> temp, children |-> [tag |-> "Success", entries |-> entries]]

-----------------------------------------------------------------------------
(* Bounds of the entry trees *)

\* most entries of a flat top level listing
MaxFlat == 2
\* most single-parent levels wrapped around a two-level listing
MaxWrap == 1
\* most bytes one file.read returns (the buffer of the source holds 16 * 1024)
ReadSize == 64

-----------------------------------------------------------------------------
(* main.rs: fn output *)

\* Ord for [u8]: a < b, byte by byte, a proper prefix first
RECURSIVE slice_lt(_, _)
slice_lt(a, b) ==
    IF b = <<>> THEN FALSE
    ELSE IF a = <<>> THEN TRUE
    ELSE IF a[1] # b[1] THEN a[1] < b[1]
    ELSE slice_lt(Tail(a), Tail(b))

\* the place of e in the sorted t: after every element whose key is <= its key
sort_insert(t, e) ==
    LET k == Cardinality({i \in 1..Len(t) : ~slice_lt(e.path, t[i].path)})
    IN  Take(t, k) \o <<e>> \o Drop(t, k)

sort_by_key_unsorted(entries) == entries

RECURSIVE sort_by_key_len(_)
sort_by_key_len(entries) ==
    IF Len(entries) <= 1 THEN entries
    ELSE LET t == sort_by_key_len(Take(entries, Len(entries) - 1))
             e == entries[Len(entries)]
             k == Cardinality({i \in 1..Len(t) : ~(Len(e.path) < Len(t[i].path))})
         IN  Take(t, k) \o <<e>> \o Drop(t, k)

\* entries.sort_by_key(|e| e.local.path.as_ref()): a stable sort
RECURSIVE sort_by_key(_)
sort_by_key(entries) ==
    IF Len(entries) <= 1 THEN entries
    ELSE sort_insert(sort_by_key(Take(entries, Len(entries) - 1)), entries[Len(entries)])

RECURSIVE name_prefix_nonul(_)
name_prefix_nonul(paths) ==
    IF paths = <<>> THEN <<>> ELSE paths[1] \o name_prefix_nonul(Tail(paths))

RECURSIVE name_prefix_slash(_)
name_prefix_slash(paths) ==
    IF paths = <<>> THEN <<>> ELSE paths[1] \o <<47>> \o name_prefix_slash(Tail(paths))

\* for path in paths { name_prefix.extend_from_slice(path); name_prefix.push(0) }
RECURSIVE name_prefix(_)
name_prefix(paths) ==
    IF paths = <<>> THEN <<>> ELSE paths[1] \o <<0>> \o name_prefix(Tail(paths))

\* the read loop: accept for every chunk read, then finish
RECURSIVE stringed_from(_, _)
stringed_from(st, content) ==
    IF content = <<>> THEN StringBuf_finish(st).out
    ELSE LET len == IF Len(content) < ReadSize THEN Len(content) ELSE ReadSize IN
         stringed_from(StringBuf_accept(st, Take(content, len)), Drop(content, len))

\* the content of the temporary file `stringed`
stringed(content) == stringed_from(StringBuf_new, content)

\* meta.push(0) / meta.push(1) / meta.push(2)
content_tag(temp) ==
    IF temp.present
    THEN IF Len(temp.content) = Len(stringed(temp.content)) THEN 0 ELSE 1
    ELSE 2

status_tag_dup(tag) ==
    CASE tag = "Unnecessary" -> 3
      [] tag = "Unrecognised" -> 4
      [] tag = "TooNested" -> 5
      [] tag = "Unsupported" -> 6
      [] tag = "Error" -> 6
      [] tag = "Success" -> 8

\* match &entry.children { ... meta.push(3..8) }
status_tag(tag) ==
    CASE tag = "Unnecessary" -> 3
      [] tag = "Unrecognised" -> 4
      [] tag = "TooNested" -> 5
      [] tag = "Unsupported" -> 6
      [] tag = "Error" -> 7
      [] tag = "Success" -> 8

\* the metadata block of an entry
meta_of(entry, paths) ==
    <<content_tag(entry.temp), status_tag(entry.children.tag)>>
        \o name_prefix(paths) \o entry.path \o <<0>>

\* file.as_ref().map(|(_file, size)| *size).unwrap_or(0)
data_len_of(entry) == IF entry.temp.present THEN Len(stringed(entry.temp.content)) ELSE 0

\* write_u64::<LE>: the 8 bytes of n, least significant first
RECURSIVE le_bytes(_, _)
le_bytes(n, k) == IF k = 0 THEN <<>> ELSE <<n % 256>> \o le_bytes(n \div 256, k - 1)

write_u64_LE(n) == le_bytes(n, 8)

frame_header_no8(meta, data_len) ==
    write_u64_LE(data_len + Len(meta)) \o write_u64_LE(Len(meta))

\* the two length fields of a frame (the lengths of the model stay far
\* below 2^64, so the u64 additions do not wrap)
frame_header(meta, data_len) ==
    write_u64_LE(8 + data_len + Len(meta)) \o write_u64_LE(Len(meta))

descend_none(entry) == [call |-> FALSE, entries |-> <<>>]

\* match &entry.children { Status::Success(entries) => output(..), _ => () }
descend(entry) ==
    IF entry.children.tag = "Success"
    THEN [call |-> TRUE, entries |-> entry.children.entries]
    ELSE [call |-> FALSE, entries |-> <<>>]

\* the state of a call output(entries, paths, out) at loop entry
output_call(entries, paths) == [entries |-> sort_by_key(entries), i |-> 1, paths |-> paths]

-----------------------------------------------------------------------------
(* Entry trees *)

Hi == <<104, 105>>
Noisy == <<104, 101, 108, 108, 111, 1, 2, 3, 104, 105>>
LongText == Rep(65, 300)

FlatPaths == {<<97>>, <<97, 98>>, <<98>>}
NestPaths == {<<97>>, <<98>>}

LeafKinds ==
    { <<Temp(Hi), "Unnecessary">>, <<Temp(Noisy), "Unrecognised">>, <<NoTemp, "TooNested">>,
      <<Temp(LongText), "Unsupported">>, <<NoTemp, "Error">>, <<Temp(Hi), "Error">> }

NestKinds == { <<Temp(Hi), "Unnecessary">>, <<NoTemp, "Error">> }

DistinctPaths(l) == \A i, j \in 1..Len(l) : i # j => l[i].path # l[j].path

Lists(E, n) == {l \in SeqsUpTo(E, n) : DistinctPaths(l)}

FlatLeaves == {Leaf(p, k[1], k[2]) : p \in FlatPaths, k \in LeafKinds}
NestLeaves == {Leaf(p, k[1], k[2]) : p \in NestPaths, k \in NestKinds}

FlatTrees == Lists(FlatLeaves, MaxFlat)

Lists1 == Lists(NestLeaves, 2)
Ents2 == NestLeaves \cup {Success(p, Temp(Noisy), l) : p \in NestPaths, l \in Lists1}
Lists2 == Lists(Ents2, 2)

RECURSIVE Wrapped(_)
Wrapped(k) ==
    IF k = 0 THEN Lists2
    ELSE {<<Success(p, NoTemp, l)>> : p \in NestPaths, l \in Wrapped(k - 1)}

\* a directory beside a sibling whose path is the directory's path and a
\* byte below every printable one
LowPath == <<97, 1>>
LowTrees ==
    UNION { { <<Success(<<97>>, t, <<Leaf(p, t, "Unnecessary")>>), Leaf(LowPath, NoTemp, "Unrecognised")>>,
              <<Leaf(LowPath, NoTemp, "Unrecognised"), Success(<<97>>, t, <<Leaf(p, t, "Unnecessary")>>)>> }
            : t \in {NoTemp, Temp(Hi)}, p \in NestPaths }

Trees == FlatTrees \cup LowTrees \cup UNION {Wrapped(k) : k \in 0..MaxWrap}

Perms(n) == {f \in [1..n -> 1..n] : \A i, j \in 1..n : i # j => f[i] # f[j]}

\* the listings that hold the same entries as l, the children of any node
\* in any order
RECURSIVE Reorderings(_)
Reorderings(l) ==
    IF l = <<>> THEN {<<>>}
    ELSE LET opts(e) == {[e EXCEPT !.children.entries = c] :
                            c \in Reorderings(e.children.entries)}
             all == UNION {opts(l[i]) : i \in 1..Len(l)}
         IN  UNION { {s \in [1..Len(l) -> all] : \A i \in 1..Len(l) : s[i] \in opts(l[f[i]])}
                     : f \in Perms(Len(l)) }

-----------------------------------------------------------------------------
(* SpecWalk: output(entries, &[], &mut out) over one top level listing, then
   over a reordering of the same listing *)

InitWalk ==
    /\ wpc = "call"
    /\ root \in Trees
    /\ stack = <<>>
    /\ stream = <<>>
    /\ frames = <<>>
    /\ fault = "none"
    /\ wrun = 1
    /\ wref = [root |-> <<>>, stream |-> <<>>]
    /\ procs = <<>>
    /\ fs = <<>>
    /\ manifest = <<>>
    /\ urlfile = "none"
    /\ pc = "idle"
    /\ data = <<>>
    /\ chars = <<>>
    /\ ci = 1
    /\ rest = <<>>
    /\ la = <<>>
    /\ buf = <<>>
    /\ binaries = 0
    /\ out = <<>>
    /\ straddled = FALSE
    /\ run = 1
    /\ ref = <<>>
    /\ flushes = <<>>

\* unarchive: Status::Success(ref entries) => output(entries, &[], &mut out)
OutputCall ==
    /\ wpc = "call"
    /\ stack' = <<output_call(root, <<>>)>>
    /\ wpc' = "walking"
    /\ UNCHANGED <<root, stream, frames, fault, wrun, wref, svars, mvars>>

Top == stack[Len(stack)]

\* the faults the reading of an entry's content can meet: the file cannot
\* be opened or read; io::copy delivers fewer bytes than the recorded length
Faults(entry) ==
    {"none"} \cup (IF entry.temp.present THEN {"ioerr"} ELSE {})
             \cup (IF data_len_of(entry) > 0 THEN {"short"} ELSE {})

\* one iteration of  for entry in entries  up to the recursive call
OutputEntry ==
    /\ wpc = "walking"
    /\ stack # <<>>
    /\ Top.i <= Len(Top.entries)
    /\ LET entry == Top.entries[Top.i]
           paths == Top.paths
           meta == meta_of(entry, paths)
           data_len == data_len_of(entry)
           content == IF entry.temp.present THEN stringed(entry.temp.content) ELSE <<>>
           d == descend(entry)
           advanced == [stack EXCEPT ![Len(stack)].i = Top.i + 1]
       IN \E f \in Faults(entry) :
            IF f = "ioerr"
            THEN /\ wpc' = "failed"
                 /\ fault' = f
                 /\ UNCHANGED <<stack, stream, frames>>
            ELSE LET copied == IF f = "short" THEN Take(content, data_len - 1) ELSE content IN
                 /\ stream' = stream \o frame_header(meta, data_len) \o meta \o copied
                 /\ frames' = Append(frames,
                        [entry |-> entry, chain |-> Append(paths, entry.path),
                         at |-> Len(stream), written |-> Len(copied)])
                 /\ IF Len(copied) # data_len
                    THEN /\ wpc' = "failed"
                         /\ fault' = f
                         /\ UNCHANGED stack
                    ELSE /\ stack' = IF d.call
                                     THEN Append(advanced,
                                              output_call(d.entries, Append(paths, entry.path)))
                                     ELSE advanced
                         /\ UNCHANGED <<wpc, fault>>
    /\ UNCHANGED <<root, wrun, wref, svars, mvars>>

\* the for loop of a call is over: Ok(())
OutputReturn ==
    /\ wpc = "walking"
    /\ stack # <<>>
    /\ Top.i > Len(Top.entries)
    /\ stack' = Take(stack, Len(stack) - 1)
    /\ wpc' = IF Len(stack) = 1 THEN "done" ELSE "walking"
    /\ UNCHANGED <<root, stream, frames, fault, wrun, wref, svars, mvars>>

\* a second run over the same entries, listed by the unpacker in another order
Rerun ==
    /\ wpc = "done"
    /\ wrun = 1
    /\ root' \in Reorderings(root)
    /\ wref' = [root |-> root, stream |-> stream]
    /\ wrun' = 2
    /\ stream' = <<>>
    /\ frames' = <<>>
    /\ stack' = <<>>
    /\ wpc' = "call"
    /\ UNCHANGED <<fault, svars, mvars>>

NextWalk == OutputCall \/ OutputEntry \/ OutputReturn \/ Rerun

SpecWalk == InitWalk /\ [][NextWalk]_vars

-----------------------------------------------------------------------------
(* The entry tree and the frame stream as the specification states them *)

\* the value of a little-endian field
RECURSIVE le_value(_)
le_value(bs) == IF bs = <<>> THEN 0 ELSE bs[1] + 256 * le_value(Tail(bs))

\* a < b byte-wise: equal up to a position where a ends or holds the lesser byte
LexLess(a, b) ==
    \E i \in 1..Len(b) :
        /\ i <= Len(a) + 1
        /\ Take(a, i - 1) = Take(b, i - 1)
        /\ (i = Len(a) + 1 \/ a[i] < b[i])

IsPrefix(c, d) == Len(c) <= Len(d) /\ Take(d, Len(c)) = c

\* the chains (own path preceded by the ancestors' paths, root first) of all
\* entries reachable through Success(children)
RECURSIVE Chains(_)
Chains(entries) ==
    UNION { {<<entries[i].path>>}
            \cup (IF entries[i].children.tag = "Success"
                  THEN {<<entries[i].path>> \o c : c \in Chains(entries[i].children.entries)}
                  ELSE {})
            : i \in 1..Len(entries) }

RECURSIVE EntryAt(_, _)
EntryAt(entries, chain) ==
    LET e == entries[CHOOSE i \in 1..Len(entries) : entries[i].path = chain[1]] IN
    IF Len(chain) = 1 THEN e ELSE EntryAt(e.children.entries, Tail(chain))

\* the number of entries below an entry
RECURSIVE Below(_)
Below(e) ==
    IF e.children.tag = "Success"
    THEN Cardinality(Chains(e.children.entries))
    ELSE 0

\* every ancestor's path followed by one NUL, then the own path
RECURSIVE Join(_)
Join(chain) ==
    IF Len(chain) = 1 THEN chain[1] ELSE chain[1] \o <<0>> \o Join(Tail(chain))

\* pre-order with ascending siblings: an ancestor before its descendants,
\* otherwise the lesser path at the first level where the chains part
ChainBefore(c, d) ==
    \/ (IsPrefix(c, d) /\ c # d)
    \/ \E i \in 1..Len(c) :
          /\ i <= Len(d)
          /\ Take(c, i - 1) = Take(d, i - 1)
          /\ LexLess(c[i], d[i])

\* the fields of the k-th frame as they stand in the stream
FrameTotal(k) == le_value(SubSeq(stream, frames[k].at + 1, frames[k].at + 8))
FrameMetaLen(k) == le_value(SubSeq(stream, frames[k].at + 9, frames[k].at + 16))
FrameMeta(k) == SubSeq(stream, frames[k].at + 17, frames[k].at + 16 + FrameMetaLen(k))
FrameEnd(k) == IF k < Len(frames) THEN frames[k + 1].at ELSE Len(stream)
FrameContent(k) == SubSeq(stream, frames[k].at + 17 + FrameMetaLen(k), FrameEnd(k))

\* the length of the sanitized content of an entry, 0 without backing content
SanitizedLen(e) == IF e.temp.present THEN Len(stringed(e.temp.content)) ELSE 0

-----------------------------------------------------------------------------
(* Claims on the walker and the frame encoder *)

\* C6: in every frame the first field is 8 + meta_len + data_len, the second
\* is the length of the metadata block, and data_len content bytes follow
\* (none without backing content); a frame whose copied length differs from
\* data_len fails the walk with the short write error.
FrameInvariant ==
    \A k \in 1..Len(frames) :
        LET e == frames[k].entry IN
        /\ frames[k].at = (IF k = 1 THEN 0 ELSE FrameEnd(k - 1))
        /\ FrameMetaLen(k) = 2 + Len(Join(frames[k].chain)) + 1
        /\ FrameTotal(k) = 8 + FrameMetaLen(k) + SanitizedLen(e)
        /\ Len(FrameContent(k)) = frames[k].written
        /\ FrameEnd(k) = frames[k].at + 16 + FrameMetaLen(k) + frames[k].written
        /\ (frames[k].written = SanitizedLen(e)
                => FrameContent(k) = (IF e.temp.present THEN stringed(e.temp.content) ELSE <<>>))
        /\ (frames[k].written # SanitizedLen(e)
                => (k = Len(frames) /\ wpc = "failed" /\ fault = "short"))
        /\ ((wpc = "failed" /\ fault = "short" /\ k = Len(frames))
                => frames[k].written # SanitizedLen(e))

\* a completed walk with a frame of 256 or more bytes and a frame without content
FrameInvariantWitness ==
    /\ wpc = "done"
    /\ \E k, l \in 1..Len(frames) :
        /\ FrameTotal(k) > 255
        /\ stream[frames[k].at + 2] = 1
        /\ ~frames[l].entry.temp.present
        /\ FrameTotal(l) = 8 + FrameMetaLen(l)

\* C7: a completed walk has emitted exactly one frame for every entry
\* reachable through Success(children) and no other frame, whatever the
\* statuses; no frame is ever emitted twice; a walk fails only on an I/O fault.
OneFramePerEntry ==
    /\ \A k, l \in 1..Len(frames) : k # l => frames[k].chain # frames[l].chain
    /\ \A k \in 1..Len(frames) :
          /\ frames[k].chain \in Chains(root)
          /\ frames[k].entry = EntryAt(root, frames[k].chain)
    /\ wpc = "done" =>
          /\ {frames[k].chain : k \in 1..Len(frames)} = Chains(root)
          /\ Len(frames) = Cardinality(Chains(root))
    /\ wpc = "failed" => fault \in {"ioerr", "short"}

\* an entry with status Error and a later sibling, both emitted
OneFramePerEntryWitness ==
    /\ wpc = "done"
    /\ \E k, l \in 1..Len(frames) :
        /\ k < l
        /\ frames[k].entry.children.tag = "Error"
        /\ Len(frames[k].chain) = Len(frames[l].chain)
        /\ Len(frames[k].chain) = 2
        /\ frames[k].chain[1] = frames[l].chain[1]

\* C8: frames are emitted in pre-order, siblings in ascending byte-wise order
\* of their paths: the descendants of an entry directly follow its frame,
\* before any later sibling, and the lesser sibling's subtree comes first.
EmissionOrder ==
    /\ \A k, l \in 1..Len(frames) : k < l => ChainBefore(frames[k].chain, frames[l].chain)
    /\ \A k, l \in 1..Len(frames) :
          (k < l /\ IsPrefix(frames[k].chain, frames[l].chain))
              => \A m \in k..l : IsPrefix(frames[k].chain, frames[m].chain)
    /\ wpc = "done" =>
          \A k \in 1..Len(frames) :
              /\ k + Below(frames[k].entry) <= Len(frames)
              /\ \A m \in k..(k + Below(frames[k].entry)) :
                    IsPrefix(frames[k].chain, frames[m].chain)

\* the unpacker listed the greater path first; its subtree was emitted last
EmissionOrderWitness ==
    /\ wpc = "done"
    /\ Len(root) = 2
    /\ LexLess(root[2].path, root[1].path)
    /\ Below(root[2]) >= 2
    /\ frames[1].chain = <<root[2].path>>
    /\ frames[Len(frames)].chain[1] = root[1].path

\* C9: the path in a frame's metadata, between the two tag bytes and the
\* closing NUL, is every ancestor's path followed by one NUL, root first,
\* then the entry's own path.
FullPathInFrame ==
    \A k \in 1..Len(frames) :
        LET m == FrameMeta(k) IN
        /\ frames[k].chain \in Chains(root)
        /\ Len(m) >= 3
        /\ SubSeq(m, 3, Len(m) - 1) = Join(frames[k].chain)
        /\ m[Len(m)] = 0

\* a frame of an entry with two ancestors
FullPathInFrameWitness ==
    /\ wpc = "done"
    /\ \E k \in 1..Len(frames) :
        /\ Len(frames[k].chain) = 3
        /\ SubSeq(FrameMeta(k), 3, FrameMetaLen(k) - 1)
              = frames[k].chain[1] \o <<0>> \o frames[k].chain[2] \o <<0>> \o frames[k].chain[3]

\* C10: the walk over the same entries listed in another order writes the
\* same stream, byte for byte.
Determinism ==
    (wrun = 2 /\ wpc = "done") => stream = wref.stream

DeterminismWitness ==
    /\ wrun = 2
    /\ wpc = "done"
    /\ root # wref.root
    /\ Len(frames) >= 3
    /\ stream = wref.stream

-----------------------------------------------------------------------------
(* main.rs: fn main and fn unarchive.  Two runs of the program for the same
   source URL and destination directory, in any interleaving (one after the
   other included). *)

\* most constituent files a package manifest names
MaxFiles == 3

Runs == {1, 2}

Absent == [by |-> 0, frames |-> "none", finished |-> FALSE]

\* the name of the file at the source URL; the constituent files are 1, 2, ..
UrlName == 0

NoScratch == [frames |-> "none", finished |-> FALSE]

main_early_return_never(exists) == FALSE

\* if out.exists() { return Ok(()); }
main_early_return(exists) == exists

persist_clobber(dir, name, content) == [ok |-> TRUE, dir |-> [dir EXCEPT ![name] = content]]

\* out.persist_noclobber(dest): the scratch file gets the name only if no
\* file has it
persist_noclobber(dir, name, content) ==
    IF dir[name] = Absent
    THEN [ok |-> TRUE, dir |-> [dir EXCEPT ![name] = content]]
    ELSE [ok |-> FALSE, dir |-> dir]

output_result_ignored(o) == "ok"

\* output(entries, &[], &mut out)? inside the worker, seen through
\* join().map_err(|_| err_msg("panic")) .. ??
output_result(o) == IF o = "ok" THEN "ok" ELSE "err"

InitMain ==
    /\ procs = [p \in Runs |->
                  [pc |-> "start", result |-> "none", sawDest |-> FALSE, fetches |-> 0,
                   unpacked |-> FALSE, scratch |-> NoScratch, failure |-> "none"]]
    /\ manifest \in SeqsUpTo({"good", "corrupt"}, MaxFiles)
    /\ urlfile \in {"archive", "corrupt", "notarchive"}
    /\ fs = [n \in 0..Len(manifest) |-> Absent]
    /\ wpc = "idle"
    /\ root = <<>>
    /\ stack = <<>>
    /\ stream = <<>>
    /\ frames = <<>>
    /\ fault = "none"
    /\ wrun = 1
    /\ wref = <<>>
    /\ pc = "idle"
    /\ data = <<>>
    /\ chars = <<>>
    /\ ci = 1
    /\ rest = <<>>
    /\ la = <<>>
    /\ buf = <<>>
    /\ binaries = 0
    /\ out = <<>>
    /\ straddled = FALSE
    /\ run = 1
    /\ ref = <<>>
    /\ flushes = <<>>

Fail(p, why) == [procs EXCEPT ![p].pc = "exit", ![p].result = "err", ![p].failure = why]

\* main.rs:40-44: the destination is looked up before anything is fetched
MainStart(p) ==
    /\ procs[p].pc = "start"
    /\ procs' = IF main_early_return(fs[UrlName] # Absent)
                THEN [procs EXCEPT ![p].pc = "exit", ![p].result = "ok",
                                   ![p].sawDest = (fs[UrlName] # Absent)]
                ELSE [procs EXCEPT ![p].pc = "get_dsc",
                                   ![p].sawDest = (fs[UrlName] # Absent)]
    /\ UNCHANGED <<fs, manifest, urlfile, svars, wvars>>

\* main.rs:46-47: http_req::request::get(&src, &mut dsc); dsc is not read
GetDsc(p) ==
    /\ procs[p].pc = "get_dsc"
    /\ \E ok \in BOOLEAN :
        procs' = IF ok
                 THEN [procs EXCEPT ![p].pc = "get", ![p].fetches = @ + 1]
                 ELSE [Fail(p, "downloading dsc") EXCEPT ![p].fetches = @ + 1]
    /\ UNCHANGED <<fs, manifest, urlfile, svars, wvars>>

\* main.rs:49-52: the file at src_url.join(path), the source URL itself
GetFile(p) ==
    /\ procs[p].pc = "get"
    /\ \E ok \in BOOLEAN :
        procs' = IF ok
                 THEN [procs EXCEPT ![p].pc = "unpack", ![p].fetches = @ + 1]
                 ELSE [Fail(p, "downloading") EXCEPT ![p].fetches = @ + 1]
    /\ UNCHANGED <<fs, manifest, urlfile, svars, wvars>>

\* main.rs:62-64, 73-80: the worker runs unarchive: unpack_into, then the
\* scratch file and the encoder
Unpack(p) ==
    /\ procs[p].pc = "unpack"
    /\ procs' = IF urlfile = "corrupt"
                THEN Fail(p, "unpacking failed")
                ELSE [procs EXCEPT ![p].pc = "output", ![p].unpacked = TRUE,
                                   ![p].scratch = [frames |-> "empty", finished |-> FALSE]]
    /\ UNCHANGED <<fs, manifest, urlfile, svars, wvars>>

\* main.rs:82-85: the walk over the top level entries, or bail!; the walk
\* ends well, on an I/O failure, on a short write or with a panic
Output(p) ==
    /\ procs[p].pc = "output"
    /\ IF urlfile = "notarchive"
       THEN procs' = Fail(p, "expecting top level archive")
       ELSE \E o \in {"ok", "ioerr", "short", "panic"} :
              LET written == [procs EXCEPT
                                ![p].scratch.frames = IF o = "ok" THEN "complete" ELSE "partial"]
              IN procs' = IF output_result(o) = "ok"
                          THEN [written EXCEPT ![p].pc = "finish"]
                          ELSE [written EXCEPT ![p].pc = "exit", ![p].result = "err",
                                               ![p].failure = o]
    /\ UNCHANGED <<fs, manifest, urlfile, svars, wvars>>

\* main.rs:87: let out = out.finish()?
EncoderFinish(p) ==
    /\ procs[p].pc = "finish"
    /\ \E ok \in BOOLEAN :
        procs' = IF ok
                 THEN [procs EXCEPT ![p].pc = "persist", ![p].scratch.finished = TRUE]
                 ELSE Fail(p, "finish")
    /\ UNCHANGED <<fs, manifest, urlfile, svars, wvars>>

\* main.rs:89-91: out.persist_noclobber(dest).map_err(|e| e.error)?; Ok(())
Persist(p) ==
    /\ procs[p].pc = "persist"
    /\ LET r == persist_noclobber(fs, UrlName,
                    [by |-> p, frames |-> procs[p].scratch.frames,
                     finished |-> procs[p].scratch.finished])
       IN /\ fs' = r.dir
          /\ procs' = IF r.ok
                      THEN [procs EXCEPT ![p].pc = "exit", ![p].result = "ok"]
                      ELSE Fail(p, "exists")
    /\ UNCHANGED <<manifest, urlfile, svars, wvars>>

NextMain ==
    \E p \in Runs :
        \/ MainStart(p)
        \/ GetDsc(p)
        \/ GetFile(p)
        \/ Unpack(p)
        \/ Output(p)
        \/ EncoderFinish(p)
        \/ Persist(p)

SpecMain == InitMain /\ [][NextMain]_vars

-----------------------------------------------------------------------------
(* Claims on the pipeline *)

\* C11: a run that finds the destination present fetches nothing, unpacks
\* nothing, writes nothing and reports success; the destination file is the
\* one an earlier run published.
Idempotence ==
    \A p \in Runs :
        procs[p].sawDest =>
            /\ procs[p].pc = "exit"
            /\ procs[p].result = "ok"
            /\ procs[p].fetches = 0
            /\ ~procs[p].unpacked
            /\ procs[p].scratch = NoScratch
            /\ fs[UrlName] # Absent
            /\ fs[UrlName].by # p

\* the first run published, the second run started afterwards and returned
IdempotenceWitness ==
    /\ procs[1].pc = "exit" /\ procs[1].result = "ok" /\ ~procs[1].sawDest
    /\ procs[2].pc = "exit" /\ procs[2].result = "ok" /\ procs[2].sawDest
    /\ fs[UrlName].by = 1

\* the runs that published the destination file
Published(ps) == {p \in Runs : ps[p].result = "ok" /\ ~ps[p].sawDest}

\* C12: when both runs pass the existence check, at most one publish
\* succeeds; a run that reaches the publish step with the destination present
\* fails; a destination file, once present, is never changed.
NoClobber ==
    [][ /\ (fs[UrlName] # Absent => fs'[UrlName] = fs[UrlName])
        /\ \A p \in Runs :
              (procs[p].pc = "persist" /\ procs'[p].pc = "exit" /\ fs[UrlName] # Absent)
                  => (procs'[p].result = "err" /\ fs' = fs)
        /\ Cardinality(Published(procs')) <= 1 ]_vars

\* both runs passed the check and wrote their stream; one published, the
\* other failed at the publish step
NoClobberWitness ==
    /\ \A p \in Runs : procs[p].pc = "exit" /\ ~procs[p].sawDest
    /\ procs[1].result = "err" /\ procs[1].failure = "exists"
    /\ procs[1].scratch = [frames |-> "complete", finished |-> TRUE]
    /\ procs[2].result = "ok"
    /\ fs[UrlName].by = 2

\* C13: the destination file exists only with the complete frame stream and
\* the compressor finished; a run that fails before the publish step reports
\* an error and has published nothing; with no successful run the
\* destination is absent.
NothingPublishedOnFailure ==
    /\ fs[UrlName] # Absent =>
          /\ fs[UrlName].frames = "complete"
          /\ fs[UrlName].finished
          /\ fs[UrlName].by \in Published(procs)
    /\ \A p \in Runs :
          /\ procs[p].failure # "none" =>
                /\ procs[p].pc = "exit"
                /\ procs[p].result = "err"
                /\ (fs[UrlName] # Absent => fs[UrlName].by # p)
          /\ procs[p].result = "ok" => procs[p].failure = "none"
    /\ Published(procs) = {} => fs[UrlName] = Absent

\* a walk that ended on a short write, the other run failed to unpack:
\* nothing was published
NothingPublishedOnFailureWitness ==
    /\ \E p \in Runs :
          /\ procs[p].pc = "exit"
          /\ procs[p].failure \in {"ioerr", "short", "panic"}
          /\ procs[p].scratch.frames = "partial"
    /\ \A p \in Runs : procs[p].pc = "exit" /\ procs[p].result = "err"
    /\ fs[UrlName] = Absent

\* C14: at the end of a run that met no fetch or I/O fault every constituent
\* file that can be unpacked is published, whatever happened to the other
\* files, and the run reports failure exactly when a file failed to unpack.
PartialFailure ==
    \A p \in Runs :
        (procs[p].pc = "exit" /\ ~procs[p].sawDest /\ procs[p].failure = "none") =>
            /\ \A i \in 1..Len(manifest) : manifest[i] = "good" => fs[i] # Absent
            /\ (procs[p].result = "err") <=> (\E i \in 1..Len(manifest) : manifest[i] = "corrupt")

\* the status byte the specification assigns (section 4.3)
StatusByte ==
    [t \in StatusTags |->
        CASE t = "Unnecessary" -> 3
          [] t = "Unrecognised" -> 4
          [] t = "TooNested" -> 5
          [] t = "Unsupported" -> 6
          [] t = "Error" -> 7
          [] t = "Success" -> 8]

\* C15: in every frame the second metadata byte is the fixed image of the
\* entry's status, six distinct values 3..8, and the first is 2 exactly
\* without backing content (no content bytes follow), 0 exactly when the
\* sanitized length equals the original length, 1 exactly when it differs.
TagMapping ==
    /\ Cardinality({StatusByte[t] : t \in StatusTags}) = 6
    /\ \A k \in 1..Len(frames) :
        LET e == frames[k].entry
            m == FrameMeta(k)
        IN  /\ m[2] = StatusByte[e.children.tag]
            /\ m[1] \in {0, 1, 2}
            /\ (m[1] = 2) <=> ~e.temp.present
            /\ (m[1] = 2) => (frames[k].written = 0 /\ FrameContent(k) = <<>>)
            /\ (m[1] = 0) <=> (e.temp.present
                                 /\ Len(stringed(e.temp.content)) = Len(e.temp.content))
            /\ (m[1] = 1) <=> (e.temp.present
                                 /\ Len(stringed(e.temp.content)) # Len(e.temp.content))

\* one walk with the three content tags, and an Error entry tagged 7
TagMappingWitness ==
    /\ wpc = "done"
    /\ \A c \in {0, 1, 2} : \E k \in 1..Len(frames) : FrameMeta(k)[1] = c
    /\ \E k \in 1..Len(frames) :
          frames[k].entry.children.tag = "Error" /\ FrameMeta(k)[2] = 7
    /\ \E k \in 1..Len(frames) :
          frames[k].entry.children.tag = "Success" /\ FrameMeta(k)[2] = 8

-----------------------------------------------------------------------------
(* Further claims on the sanitizer *)

IsSuffix(t, s) == Len(t) <= Len(s) /\ SubSeq(s, Len(s) - Len(t) + 1, Len(s)) = t

\* position i of d starts an incomplete multi-byte sequence that runs to the
\* end of d: a lead byte and too few bytes after it, all continuation bytes
IncompleteAt(d, i) ==
    /\ LeadLen(d[i]) > 0
    /\ Len(d) - i + 1 < LeadLen(d[i])
    /\ \A j \in (i + 1)..Len(d) : IsContinuation(d[j])

\* C16: at end of input the run buffer is written as it is, tolerated binary
\* bytes included and no NUL added, and the bytes of an incomplete multi-byte
\* sequence at the end of the input are written verbatim, not dropped and
\* not counted as binary bytes.
EndOfInputFlush ==
    pc = "done" =>
        /\ IsSuffix(buf, out)
        /\ \A i \in 1..Len(data) :
              IncompleteAt(data, i) => IsSuffix(SubSeq(data, i, Len(data)), out)

\* the bytes a size-bound flush left in the run buffer, without the tolerated
\* binary bytes at their end
flush_text(f) == Take(f.left, Len(f.left) - f.tolerated)

AssertionsHold ==
    /\ pc # "panic"
    /\ \A k \in 1..Len(chars) : chars[k].kind # "Short"
    /\ pc \in {"loop", "done"} =>
        /\ binaries \in 0..2
        /\ binaries <= Len(buf)
        /\ \A j \in 1..binaries :
              /\ ci - j >= 1
              /\ chars[ci - j].kind = "Binary"
              /\ buf[Len(buf) - j + 1] = chars[ci - j].bytes[1]

AssertionsHoldWitness ==
    /\ pc = "loop"
    /\ data = <<65, 195, 128, 65>> \o <<1, 2, 3>> \o <<65>>
    /\ ci = 7
    /\ chars[ci - 1].kind = "Binary"
    /\ binaries = 0
    /\ out = <<65, 195, 128, 65, 0>>

\* C19: the sanitized output is never longer than the input, and when it is as
\* long as the input it is the input, byte for byte.
LengthTestSound ==
    pc = "done" =>
        /\ Len(out) <= Len(data)
        /\ Len(out) = Len(data) => out = data

LengthTestSoundWitness ==
    /\ pc = "done"
    /\ \E i \in 1..Len(data) : data[i] = 1
    /\ Len(data) = MaxLen
    /\ Len(out) = Len(data)
    /\ out = data

-----------------------------------------------------------------------------
(* Further claim on the walker *)

\* the full path a frame carries, as it stands in the stream
FramePath(k) == SubSeq(FrameMeta(k), 3, FrameMetaLen(k) - 1)

\* C20: with paths free of NUL and unique among siblings, the full paths of
\* the frames of one stream are strictly increasing byte-wise from the first
\* frame to the last.
FullPathsIncreasing ==
    \A k, l \in 1..Len(frames) : k < l => LexLess(FramePath(k), FramePath(l))

\* a child's frame between its parent and the parent's sibling whose path
\* is the parent's path and one low byte
FullPathsIncreasingWitness ==
    /\ wpc = "done"
    /\ Len(frames) = 3
    /\ FramePath(1) = <<97>>
    /\ FramePath(2) = <<97, 0, 98>>
    /\ FramePath(3) = LowPath

====
